---- MODULE Spec2Model ----
(***************************************************************************)
(* The user-management REST server of src/src/server.js as a state         *)
(* machine.  The state is the "users" table of the store, the register     *)
(* requests that are suspended between their existence check and their     *)
(* insert, the bearer tokens clients hold, the clock, and the last         *)
(* response sent.  One action per route; register is two steps because it  *)
(* awaits the store twice.                                                 *)
(***************************************************************************)
EXTENDS Integers, FiniteSets, Sequences, TLC

\* ------------------------------------------------------------------ bounds
MaxId == 2          \* rows the store ever creates, and the ids requests name
MaxRows == 3        \* rows the store ever creates where only register, login and
                    \* check-email requests arrive
MaxTime == 2        \* the clock runs 0..MaxTime
MaxTokens == 1      \* tokens the clients keep

\* The lifetime of a token, expiresIn: "1h", in ticks of the clock (hours).
ExpiresIn == 1

Clients == {"c1", "c2"}             \* register requests that can overlap
Emails == {"a@x.com", "b@x.com"}
Passwords == {"pw123"}              \* passwords users register with
WrongPassword == "nope"
Salts == {"s1"}
IdInputs == 0 .. MaxId              \* the ids requests name; no row has id 0

VARIABLES store, nextId, inflight, tokens, now, last

vars == <<store, nextId, inflight, tokens, now, last>>

\* ------------------------------------------------------- credential hasher
\* bcrypt.hash(password, 10): the salt is embedded in the output.
Hash(plain, salt) == [salt |-> salt, digest |-> <<"bcrypt", salt, plain>>]

\* bcrypt.compare(password, user.password)
Compare(plain, hashed) == hashed = Hash(plain, hashed.salt)

\* ------------------------------------------------------------ token gate
NoToken == [userId |-> 0, iat |-> 0, sig |-> "none"]

\* Mutant: the payload is built from a field the row does not have, so the
\* token embeds no user's id.
SignNoId(userId) == [userId |-> 0, iat |-> now, sig |-> "secret"]

\* jwt.sign({ userId }, JWT_SECRET, { expiresIn: "1h" })
Sign(userId) == [userId |-> userId, iat |-> now, sig |-> "secret"]

\* A token signed with another key.
Forged == [userId |-> 1, iat |-> now, sig |-> "other"]

\* Mutant: the expiry is not looked at.
VerifyIgnoreExpiration(token) == token.sig = "secret"

\* jwt.verify(token, JWT_SECRET): the signature, then the expiry.
Verify(token) == token.sig = "secret" /\ now < token.iat + ExpiresIn

\* Mutant: the gate also looks the holder up and turns away a holder who is
\* blocked or has no row.
authenticateTokenAndHolder(token) ==
    IF token.sig = "none"
    THEN [ok |-> FALSE, code |-> 401, error |-> "Access token is required"]
    ELSE IF \/ ~Verify(token)
            \/ \A r \in store : r.id = token.userId => r.status = "blocked"
    THEN [ok |-> FALSE, code |-> 403, error |-> "Invalid or expired token"]
    ELSE [ok |-> TRUE, code |-> 200, error |-> ""]

\* authenticateToken: the outcome for a presented token.
authenticateToken(token) ==
    IF token.sig = "none"
    THEN [ok |-> FALSE, code |-> 401, error |-> "Access token is required"]
    ELSE IF ~Verify(token)
    THEN [ok |-> FALSE, code |-> 403, error |-> "Invalid or expired token"]
    ELSE [ok |-> TRUE, code |-> 200, error |-> ""]

\* ------------------------------------------------------------ the store
\* Mutant: the lookup compares another column.
SelectByName(email) == {r \in store : r.name = email}

\* supabase.from("users").select("*").eq("email", email)
SelectByEmail(email) == {r \in store : r.email = email}

\* supabase.from("users").select("*").eq("id", id)
SelectById(id) == {r \in store : r.id = id}

\* Mutant: of several rows the first is returned (as .limit(1) would).
SingleOrFirst(rows, failed) ==
    IF failed THEN [data |-> {}, error |-> "STORE"]
    ELSE IF rows # {}
    THEN [data |-> {CHOOSE r \in rows : \A q \in rows : r.id <= q.id}, error |-> ""]
    ELSE [data |-> {}, error |-> "PGRST116"]

\* .single(): one row, or the error PGRST116 when the rows are none or
\* several.  failed: the store call itself fails (any other error).
Single(rows, failed) ==
    IF failed THEN [data |-> {}, error |-> "STORE"]
    ELSE IF Cardinality(rows) = 1 THEN [data |-> rows, error |-> ""]
    ELSE [data |-> {}, error |-> "PGRST116"]

\* Mutant: the update has no filter and writes every row.
UpdateStatusOfAll(ids, status) == {[r EXCEPT !.status = status] : r \in store}

\* .update({ status }).in("id", userIds)
UpdateStatus(ids, status) ==
    {IF r.id \in ids THEN [r EXCEPT !.status = status] ELSE r : r \in store}

\* Mutant: only the first id of userIds is deleted.
DeleteFirst(ids) ==
    {r \in store : ids = {} \/ r.id # (CHOOSE i \in ids : \A j \in ids : i <= j)}

\* .delete().in("id", userIds)
DeleteIn(ids) == {r \in store : r.id \notin ids}

\* .insert([{ email, name, role, status, last_seen, password }]).select():
\* the row as stored, with the id the store gives it.
InsertRow(body, hashed) ==
    [id |-> nextId, email |-> body.email, name |-> body.name, role |-> body.role,
     status |-> body.status, last_seen |-> now, password |-> hashed]

\* Mutant: the status is compared with a value no row has.
IsBlockedTypo(user) == user.status = "block"

\* user.status === "blocked"
IsBlocked(user) == user.status = "blocked"

\* ---------------------------------------------------- requests, responses
NoIds == [isArray |-> FALSE, ids |-> {}]
IdArray(ids) == [isArray |-> TRUE, ids |-> ids]

NoBody ==
    [email |-> "", name |-> "", role |-> "", status |-> "", password |-> "",
     userIds |-> NoIds, id |-> 0]

RegisterBody(email, status, password) ==
    [NoBody EXCEPT !.email = email, !.name = "N", !.role = "user",
                   !.status = status, !.password = password]

FullBodies ==
    {RegisterBody(e, s, p) : e \in Emails, s \in {"active"}, p \in Passwords}

\* Register bodies: every field present, or one field missing.
RegisterBodies ==
    FullBodies \cup
    {[RegisterBody("a@x.com", "active", "pw123") EXCEPT ![f] = ""] :
        f \in {"email", "name", "role", "status", "password"}}

\* userIds of a block, unblock or delete body: an array of ids, or no array.
UserIdsInputs == {NoIds} \cup {IdArray(S) : S \in SUBSET IdInputs}

\* What a client can put in the Authorization header.
Presentable == {NoToken, Forged} \cup tokens

\* The response to a request (code, error, and the user, users, token and
\* userIds of its JSON body), with the request it answers, the time it was
\* served at and the table as it was then.
Response(op, tok, body, storeError, code, error, user, users, token) ==
    [op |-> op, tok |-> tok, body |-> body, storeError |-> storeError,
     code |-> code, error |-> error, user |-> user, users |-> users,
     token |-> token,
     userIds |-> IF code = 200 /\ op \in {"block", "unblock", "delete"}
                 THEN body.userIds ELSE NoIds,
     at |-> now, before |-> store]

Idle == [pc |-> "idle", body |-> NoBody]

Init ==
    /\ store = {}
    /\ nextId = 1
    /\ inflight = [c \in Clients |-> Idle]
    /\ tokens = {}
    /\ now = 0
    /\ last = Response("none", NoToken, NoBody, FALSE, 0, "", {}, {}, {})

\* The clients keep a token while they have room for it.
Keep(token) == IF Cardinality(tokens) < MaxTokens THEN tokens \cup {token} ELSE tokens

\* -------------------------------------------------------------- register
\* POST /api/users/register up to the second await: validation and the
\* existence check.  limit: how many register requests may be in flight;
\* cap: how many rows the store ever creates.
RegisterCheck(c, body, failed, limit, cap) ==
    /\ inflight[c].pc = "idle"
    /\ Cardinality({d \in Clients : inflight[d].pc # "idle"}) < limit
    /\ LET check == Single(SelectByEmail(body.email), failed) IN
       IF \E f \in {"email", "name", "role", "status", "password"} : body[f] = ""
       THEN /\ last' = Response("register", NoToken, body, FALSE, 400,
                                "All fields are required", {}, {}, {})
            /\ UNCHANGED <<store, nextId, inflight, tokens, now>>
       ELSE IF check.error # "" /\ check.error # "PGRST116"
       THEN /\ last' = Response("register", NoToken, body, TRUE, 500,
                                check.error, {}, {}, {})
            /\ UNCHANGED <<store, nextId, inflight, tokens, now>>
       ELSE IF check.data # {}
       THEN /\ last' = Response("register", NoToken, body, FALSE, 400,
                                "User with this email already exists", {}, {}, {})
            /\ UNCHANGED <<store, nextId, inflight, tokens, now>>
       ELSE /\ nextId + Cardinality({d \in Clients : inflight[d].pc # "idle"}) <= cap
            /\ inflight' = [inflight EXCEPT ![c] = [pc |-> "insert", body |-> body]]
            /\ UNCHANGED <<store, nextId, tokens, now, last>>

\* Mutant: the insert fails when the email is on a row already (a unique
\* constraint on the column).
RegisterInsertUnique(c, salt, failed) ==
    /\ inflight[c].pc = "insert"
    /\ LET body == inflight[c].body
           row == InsertRow(body, Hash(body.password, salt)) IN
       IF failed \/ SelectByEmail(body.email) # {}
       THEN /\ last' = Response("register", NoToken, body, TRUE, 500, "STORE", {}, {}, {})
            /\ UNCHANGED <<store, nextId>>
       ELSE /\ store' = store \cup {row}
            /\ nextId' = nextId + 1
            /\ last' = Response("register", NoToken, body, FALSE, 201, "", {row}, {}, {})
    /\ inflight' = [inflight EXCEPT ![c] = Idle]
    /\ UNCHANGED <<tokens, now>>

\* POST /api/users/register from the hash on: the insert and the response.
RegisterInsert(c, salt, failed) ==
    /\ inflight[c].pc = "insert"
    /\ LET body == inflight[c].body
           row == InsertRow(body, Hash(body.password, salt)) IN
       IF failed
       THEN /\ last' = Response("register", NoToken, body, TRUE, 500, "STORE", {}, {}, {})
            /\ UNCHANGED <<store, nextId>>
       ELSE /\ store' = store \cup {row}
            /\ nextId' = nextId + 1
            /\ last' = Response("register", NoToken, body, FALSE, 201, "", {row}, {}, {})
    /\ inflight' = [inflight EXCEPT ![c] = Idle]
    /\ UNCHANGED <<tokens, now>>

\* ----------------------------------------------------------------- login
\* POST /api/users/login
Login(email, password, failed) ==
    LET body == [NoBody EXCEPT !.email = email, !.password = password]
        found == Single(SelectByEmail(email), failed)
        user == CHOOSE r \in found.data : TRUE
        token == Sign(user.id) IN
    /\ IF email = "" \/ password = ""
       THEN /\ last' = Response("login", NoToken, body, FALSE, 400,
                                "Email and password are required", {}, {}, {})
            /\ UNCHANGED tokens
       ELSE IF found.error # "" \/ found.data = {}
       THEN /\ last' = Response("login", NoToken, body, failed, 404,
                                "User not found", {}, {}, {})
            /\ UNCHANGED tokens
       ELSE IF IsBlocked(user)
       THEN /\ last' = Response("login", NoToken, body, FALSE, 403,
                                "User is blocked", {}, {}, {})
            /\ UNCHANGED tokens
       ELSE IF ~Compare(password, user.password)
       THEN /\ last' = Response("login", NoToken, body, FALSE, 401,
                                "Invalid password", {}, {}, {})
            /\ UNCHANGED tokens
       ELSE /\ last' = Response("login", NoToken, body, FALSE, 200, "",
                                {user}, {}, {token})
            /\ tokens' = Keep(token)
    /\ UNCHANGED <<store, nextId, inflight, now>>

\* The response of authenticateToken when it turns a request away; the
\* handler does not run.
Rejected(op, tok, body) ==
    /\ last' = Response(op, tok, NoBody, FALSE, authenticateToken(tok).code,
                        authenticateToken(tok).error, {}, {}, {})
    /\ UNCHANGED <<store, nextId, inflight, tokens, now>>

\* -------------------------------------------------------------------- me
\* GET /api/users/me
Me(tok, failed) ==
    LET found == Single(SelectById(tok.userId), failed) IN
    IF ~authenticateToken(tok).ok THEN Rejected("me", tok, NoBody)
    ELSE /\ IF found.error # "" \/ found.data = {}
            THEN last' = Response("me", tok, NoBody, failed, 404, "User not found",
                                  {}, {}, {})
            ELSE last' = Response("me", tok, NoBody, FALSE, 200, "", found.data, {}, {})
         /\ UNCHANGED <<store, nextId, inflight, tokens, now>>

\* ------------------------------------------------- block, unblock, delete
\* The three routes that take userIds: the array check, one store call that
\* leaves the table as `after`, and the echo of userIds.
Batch(op, tok, userIds, failed, after) ==
    LET body == [NoBody EXCEPT !.userIds = userIds] IN
    IF ~authenticateToken(tok).ok THEN Rejected(op, tok, body)
    ELSE /\ IF ~userIds.isArray
            THEN /\ last' = Response(op, tok, body, FALSE, 400,
                                     "User IDs must be provided as an array", {}, {}, {})
                 /\ UNCHANGED store
            ELSE IF failed
            THEN /\ last' = Response(op, tok, body, TRUE, 500, "STORE", {}, {}, {})
                 /\ UNCHANGED store
            ELSE /\ last' = Response(op, tok, body, FALSE, 200, "", {}, {}, {})
                 /\ store' = after
         /\ UNCHANGED <<nextId, inflight, tokens, now>>

\* POST /api/users/block
Block(tok, userIds, failed) ==
    Batch("block", tok, userIds, failed, UpdateStatus(userIds.ids, "blocked"))

\* Mutant: the route was copied from /block and still writes "blocked".
UnblockWritesBlocked(tok, userIds, failed) ==
    Batch("unblock", tok, userIds, failed, UpdateStatus(userIds.ids, "blocked"))

\* POST /api/users/unblock
Unblock(tok, userIds, failed) ==
    Batch("unblock", tok, userIds, failed, UpdateStatus(userIds.ids, "unblocked"))

\* POST /api/users/delete
Delete(tok, userIds, failed) ==
    Batch("delete", tok, userIds, failed, DeleteIn(userIds.ids))

\* ------------------------------------------------------------------ users
\* GET /api/users
ListUsers(tok, failed) ==
    IF ~authenticateToken(tok).ok THEN Rejected("users", tok, NoBody)
    ELSE /\ IF failed
            THEN last' = Response("users", tok, NoBody, TRUE, 500, "STORE", {}, {}, {})
            ELSE last' = Response("users", tok, NoBody, FALSE, 200, "", {}, store, {})
         /\ UNCHANGED <<store, nextId, inflight, tokens, now>>

\* GET /api/users/:id
GetUser(tok, id, failed) ==
    LET body == [NoBody EXCEPT !.id = id]
        found == Single(SelectById(id), failed) IN
    IF ~authenticateToken(tok).ok THEN Rejected("user", tok, body)
    ELSE /\ IF found.error # ""
            THEN last' = Response("user", tok, body, failed, 500, found.error, {}, {}, {})
            ELSE last' = Response("user", tok, body, FALSE, 200, "", found.data, {}, {})
         /\ UNCHANGED <<store, nextId, inflight, tokens, now>>

\* ------------------------------------------------------------ the checks
\* The body both check routes share, from the lookup on.
CheckByEmail(op, tok, email, failed) ==
    LET body == [NoBody EXCEPT !.email = email]
        found == Single(SelectByEmail(email), failed)
        user == CHOOSE r \in found.data : TRUE IN
    /\ IF found.error # "" \/ found.data = {}
       THEN last' = Response(op, tok, body, failed, 404, "User not found", {}, {}, {})
       ELSE IF IsBlocked(user)
       THEN last' = Response(op, tok, body, FALSE, 403, "User is blocked", {}, {}, {})
       ELSE last' = Response(op, tok, body, FALSE, 200, "", {user}, {}, {})
    /\ UNCHANGED <<store, nextId, inflight, tokens, now>>

\* POST /api/users/check-email
CheckEmail(email, failed) == CheckByEmail("check-email", NoToken, email, failed)

\* POST /api/users/check-current-user
CheckCurrentUser(tok, email, failed) ==
    IF ~authenticateToken(tok).ok
    THEN Rejected("check-current-user", tok, [NoBody EXCEPT !.email = email])
    ELSE CheckByEmail("check-current-user", tok, email, failed)

\* ------------------------------------------------------------- the clock
Tick ==
    /\ now < MaxTime
    /\ now' = now + 1
    /\ UNCHANGED <<store, nextId, inflight, tokens, last>>

\* ------------------------------------------------------ specifications
EmailInputs == Emails \cup {""}
PasswordInputs == Passwords \cup {WrongPassword, ""}

\* The store answers every call.
Answers == {FALSE}
\* A store call may also fail.
MayFail == {FALSE, TRUE}

RegisterCheckStep(F, limit, cap) ==
    \E c \in Clients, b \in RegisterBodies, f \in F : RegisterCheck(c, b, f, limit, cap)
RegisterInsertStep(F) == \E c \in Clients, s \in Salts, f \in F : RegisterInsert(c, s, f)
LoginStep(F) == \E e \in EmailInputs, p \in PasswordInputs, f \in F : Login(e, p, f)
MeStep(F) == \E t \in Presentable, f \in F : Me(t, f)
BlockStep(F) == \E t \in Presentable, u \in UserIdsInputs, f \in F : Block(t, u, f)
UnblockStep(F) == \E t \in Presentable, u \in UserIdsInputs, f \in F : Unblock(t, u, f)
DeleteStep(F) == \E t \in Presentable, u \in UserIdsInputs, f \in F : Delete(t, u, f)
ListUsersStep(F) == \E t \in Presentable, f \in F : ListUsers(t, f)
GetUserStep(F) == \E t \in Presentable, i \in IdInputs, f \in F : GetUser(t, i, f)
CheckEmailStep(F) == \E e \in EmailInputs, f \in F : CheckEmail(e, f)
CheckCurrentUserStep(F) ==
    \E t \in Presentable, e \in EmailInputs, f \in F : CheckCurrentUser(t, e, f)

\* Requests arrive in any order; at most `limit` register requests overlap.
Requests(F, limit) ==
    \/ RegisterCheckStep(F, limit, MaxId)
    \/ RegisterInsertStep(F)
    \/ LoginStep(F)
    \/ MeStep(F)
    \/ BlockStep(F)
    \/ UnblockStep(F)
    \/ DeleteStep(F)
    \/ ListUsersStep(F)
    \/ GetUserStep(F)
    \/ CheckEmailStep(F)
    \/ CheckCurrentUserStep(F)
    \/ Tick

\* The server with a store that answers: register requests overlap.
Next == Requests(Answers, Cardinality(Clients))

Spec == Init /\ [][Next]_vars

\* Register requests are processed one at a time.
NextSeq == Requests(Answers, 1)

SpecSeq == Init /\ [][NextSeq]_vars

\* Only register, login and check-email requests arrive.
NextRegister ==
    \/ RegisterCheckStep(Answers, Cardinality(Clients), MaxRows)
    \/ RegisterInsertStep(Answers)
    \/ LoginStep(Answers)
    \/ CheckEmailStep(Answers)

SpecRegister == Init /\ [][NextRegister]_vars

\* The server with a store whose calls may fail.
NextMayFail == Requests(MayFail, Cardinality(Clients))

SpecMayFail == Init /\ [][NextMayFail]_vars

\* ================================================================ claims
RowsWithEmail(rows, email) == {r \in rows : r.email = email}
RowsWithId(rows, id) == {r \in rows : r.id = id}

\* The request last answered carried every register field.
AllFieldsPresent(body) ==
    \A f \in {"email", "name", "role", "status", "password"} : body[f] # ""

\* The token was well signed and unexpired at time t.
ValidAt(tok, t) == tok.sig = "secret" /\ t < tok.iat + ExpiresIn

\* The response came from the handler, not from the token gate.
PassedGate == last.error \notin {"Access token is required", "Invalid or expired token"}

\* C1: with register requests processed one at a time, a register request
\* with every field present whose email already belongs to a stored row is
\* answered 400 "User with this email already exists", the table is left as
\* it was, and the email still belongs to exactly one row.
C1_DuplicateEmailRefused ==
    (/\ last.op = "register"
     /\ AllFieldsPresent(last.body)
     /\ RowsWithEmail(last.before, last.body.email) # {})
    => /\ last.code = 400
       /\ last.error = "User with this email already exists"
       /\ last.user = {}
       /\ store = last.before
       /\ Cardinality(RowsWithEmail(store, last.body.email)) = 1

C1_Witness ==
    /\ last.op = "register"
    /\ AllFieldsPresent(last.body)
    /\ last.code = 400
    /\ RowsWithEmail(last.before, last.body.email) # {}
    /\ Cardinality(store) = 2

\* C2: a register request that has passed its existence check inserts its
\* row and is answered 201 whatever the table holds by then: when another
\* request for the same email has inserted in between, the email ends up on
\* one row more than before, so two requests that both ran their checks
\* before either insert both get 201 and leave two rows with the email.
C2_InsertDoesNotRecheck ==
    [][\A c \in Clients, s \in Salts :
         RegisterInsert(c, s, FALSE) =>
            /\ last'.code = 201
            /\ Cardinality(last'.user) = 1
            /\ last'.user \subseteq store'
            /\ \A r \in last'.user : r.email = inflight[c].body.email
            /\ Cardinality(RowsWithEmail(store', inflight[c].body.email))
                 = Cardinality(RowsWithEmail(store, inflight[c].body.email)) + 1]_vars

\* Two rows share an email, and the request that added the second was
\* answered 201.
C2_Witness ==
    /\ last.op = "register"
    /\ last.code = 201
    /\ Cardinality(RowsWithEmail(last.before, last.body.email)) = 1
    /\ Cardinality(RowsWithEmail(store, last.body.email)) = 2

\* The one row the email belongs to is blocked.
BlockedRecord(rows, email) ==
    /\ Cardinality(RowsWithEmail(rows, email)) = 1
    /\ \A r \in RowsWithEmail(rows, email) : r.status = "blocked"

\* C3: for an email whose stored record is blocked, login (with a password
\* submitted, correct or not), check-email and check-current-user (with a
\* valid token) answer 403 "User is blocked" and carry neither a token nor
\* the user record; while any row with the email is blocked, none of the
\* three answers 200, and login does not answer 401.
C3_BlockedIsRefused ==
    LET email == last.body.email
        asked == \/ last.op = "login" /\ email # "" /\ last.body.password # ""
                 \/ last.op = "check-email"
                 \/ last.op = "check-current-user" /\ ValidAt(last.tok, last.at) IN
    /\ (asked /\ BlockedRecord(last.before, email))
         => /\ last.code = 403
            /\ last.error = "User is blocked"
            /\ last.token = {}
            /\ last.user = {}
    /\ (asked /\ \E r \in RowsWithEmail(last.before, email) : r.status = "blocked")
         => /\ last.code \notin {200, 401}
            /\ last.token = {}
            /\ last.user = {}

\* A blocked user logs in with the correct password and is answered 403.
C3_Witness ==
    /\ last.op = "login"
    /\ BlockedRecord(last.before, last.body.email)
    /\ \A r \in RowsWithEmail(last.before, last.body.email) :
          Compare(last.body.password, r.password)
    /\ last.code = 403

\* The correct email and password of a user who is not blocked.
CorrectLogin(rows, body) ==
    /\ Cardinality(RowsWithEmail(rows, body.email)) = 1
    /\ \A r \in RowsWithEmail(rows, body.email) :
          r.status # "blocked" /\ Compare(body.password, r.password)

C4_Responses ==
    /\ (last.op \in {"block", "unblock"} /\ last.code = 200)
         => \A r \in last.before : r.id \in last.userIds.ids =>
               \E s \in store :
                  /\ s.id = r.id
                  /\ s.status = (IF last.op = "block" THEN "blocked" ELSE "unblocked")
    /\ (/\ last.op = "login"
        /\ last.body.password # ""
        /\ BlockedRecord(last.before, last.body.email))
         => last.code = 403 /\ last.token = {}
    /\ (last.op = "login" /\ CorrectLogin(last.before, last.body))
         => last.code = 200 /\ last.token # {}

\* C4: a successful block leaves every existing user named in userIds
\* blocked; a blocked user's row stays blocked in every step but a
\* successful unblock that names its id (or a delete, which removes it), and
\* while it is blocked a login with its email is answered 403 even with the
\* correct password; a successful unblock leaves the named users unblocked,
\* and a login with the correct email and password of a user who is not
\* blocked is answered 200 with a token.
C4_BlockedUntilUnblock ==
    [][/\ C4_Responses'
       /\ \A r \in store : \A s \in store' :
             (r.id = s.id /\ r.status = "blocked" /\ s.status # "blocked")
                => /\ last'.op = "unblock"
                   /\ last'.code = 200
                   /\ r.id \in last'.userIds.ids]_vars

\* A user who was unblocked by an unblock request (users register as
\* "active") logs in and is answered 200 with a token.
C4_Witness ==
    /\ last.op = "login"
    /\ last.code = 200
    /\ last.token # {}
    /\ \A r \in last.user : r.status = "unblocked"

\* C5: a login with the correct email and password of a user who is not
\* blocked is answered 200 with that user's record and a token that embeds
\* the user's id; every token the clients hold embeds the id the store gave
\* some user; GET /me with a token that is unexpired answers 200 with the
\* row whose id is the token's, and 404 with no record when no row has
\* that id, so never with the record of another user.
C5_TokenResolvesToItsUser ==
    /\ (last.op = "login" /\ CorrectLogin(last.before, last.body))
         => /\ last.code = 200
            /\ last.user = RowsWithEmail(last.before, last.body.email)
            /\ \E r \in last.user :
                  last.token = {[userId |-> r.id, iat |-> last.at, sig |-> "secret"]}
    /\ (last.op = "login" /\ last.code = 200)
         => /\ CorrectLogin(last.before, last.body)
            /\ last.token # {}
    /\ \A t \in tokens : t.sig = "secret" /\ t.userId \in 1 .. (nextId - 1)
    /\ (last.op = "me" /\ ValidAt(last.tok, last.at))
         => IF RowsWithId(last.before, last.tok.userId) # {}
            THEN /\ last.code = 200
                 /\ Cardinality(last.user) = 1
                 /\ \A r \in last.user : r.id = last.tok.userId /\ r \in last.before
            ELSE last.code = 404 /\ last.user = {}

\* A token issued at login is presented to /me, which answers with the
\* holder's record while another user is stored too.
C5_Witness ==
    /\ last.op = "me"
    /\ last.tok \in tokens
    /\ last.code = 200
    /\ \A r \in last.user : r.id = last.tok.userId
    /\ \E r \in store : r.id # last.tok.userId

\* The routes behind authenticateToken.
AuthRoutes == {"me", "block", "unblock", "delete", "users", "user", "check-current-user"}

\* C6: every route behind the token gate answers 401 "Access token is
\* required" when no token is presented and 403 "Invalid or expired token"
\* when the token's signature is bad or the token is presented an hour or
\* more after it was issued; such a response carries nothing from the
\* store, nothing of the body has been read, and the table is unchanged.
C6_GateRejects ==
    last.op \in AuthRoutes =>
       /\ last.tok.sig = "none"
            => last.code = 401 /\ last.error = "Access token is required"
       /\ (last.tok.sig # "none" /\ ~ValidAt(last.tok, last.at))
            => last.code = 403 /\ last.error = "Invalid or expired token"
       /\ ~ValidAt(last.tok, last.at)
            => /\ store = last.before
               /\ last.user = {} /\ last.users = {} /\ last.token = {}
               /\ last.userIds = NoIds
               /\ last.body = NoBody

\* A token that was issued at login is presented to /delete more than an
\* hour later and is turned away.
C6_Witness ==
    /\ last.op = "delete"
    /\ last.tok.sig = "secret"
    /\ last.at > last.tok.iat + ExpiresIn
    /\ last.code = 403
    /\ store # {}

C7_Responses ==
    /\ (last.op = "delete" /\ last.code = 200)
         => \A i \in last.userIds.ids : RowsWithId(store, i) = {}
    /\ (/\ last.op = "user"
        /\ ValidAt(last.tok, last.at)
        /\ RowsWithId(last.before, last.body.id) = {})
         => /\ last.code = 500
            /\ last.error = "PGRST116"
            /\ last.user = {}
    /\ (last.op = "user" /\ last.code = 200)
         => last.user # {} /\ last.user = RowsWithId(last.before, last.body.id)
    /\ \A r \in store : r.id < nextId

\* C7: a successful delete leaves no row with an id of userIds; an id the
\* store has given and that is on no row is never on a row again; and
\* GET /users/:id for an id that is on no row answers 500 with the store's
\* error PGRST116 (not 404) and no record.
C7_DeletedIsGone ==
    [][/\ C7_Responses'
       /\ \A i \in 1 .. (nextId - 1) :
             RowsWithId(store, i) = {} => RowsWithId(store', i) = {}]_vars

\* GET /users/:id with a valid token for the id of a deleted row: 500.
C7_Witness ==
    /\ last.op = "user"
    /\ ValidAt(last.tok, last.at)
    /\ last.body.id \in 1 .. (nextId - 1)
    /\ RowsWithId(store, last.body.id) = {}
    /\ last.code = 500
    /\ store # {}

\* C8: a successful block (unblock) leaves exactly the rows whose id is in
\* userIds with status blocked (unblocked) and every other field as it was,
\* a successful delete removes exactly those rows, every other row is as it
\* was and no row is added; a request with a valid token and an array is
\* answered 200 with userIds echoed, also when ids of it match no row.
C8_ExactlyTheNamedRows ==
    LET ids == last.body.userIds.ids
        status == IF last.op = "block" THEN "blocked" ELSE "unblocked" IN
    /\ (last.op \in {"block", "unblock"} /\ last.code = 200)
         => /\ \A r \in last.before :
                  IF r.id \in ids THEN [r EXCEPT !.status = status] \in store
                                  ELSE r \in store
            /\ \A s \in store : \E r \in last.before : r.id = s.id
            /\ Cardinality(store) = Cardinality(last.before)
    /\ (last.op = "delete" /\ last.code = 200)
         => /\ store \subseteq last.before
            /\ \A r \in last.before : r \in store <=> r.id \notin ids
    /\ (/\ last.op \in {"block", "unblock", "delete"}
        /\ ValidAt(last.tok, last.at)
        /\ last.body.userIds.isArray)
         => last.code = 200 /\ last.userIds = last.body.userIds

\* A block of an id that is on a row and an id that is on none, while
\* another row is stored.
C8_Witness ==
    /\ last.op = "block"
    /\ last.code = 200
    /\ \E i \in last.userIds.ids : RowsWithId(last.before, i) = {}
    /\ \E r \in last.before : r.id \in last.userIds.ids /\ r.status # "blocked"
    /\ \E r \in last.before : r.id \notin last.userIds.ids

\* C9: on every route behind the token gate the gate lets a request pass
\* exactly when its token is well signed and unexpired, whatever the table
\* holds: with such a token, also when its holder is blocked or deleted,
\* GET /users answers 200 with every row, block, unblock and delete of an
\* array answer 200, and GET /me answers 404 when the holder's row is gone
\* and 200 when it is there, blocked or not.
C9_GateIgnoresTheStore ==
    last.op \in AuthRoutes =>
       /\ PassedGate <=> ValidAt(last.tok, last.at)
       /\ ValidAt(last.tok, last.at) =>
            /\ last.op = "users" => (last.code = 200 /\ last.users = last.before)
            /\ (last.op \in {"block", "unblock", "delete"} /\ last.body.userIds.isArray)
                 => last.code = 200
            /\ last.op = "me" =>
                 last.code = (IF RowsWithId(last.before, last.tok.userId) = {}
                              THEN 404 ELSE 200)

\* A blocked user unblocks their own id with the token they got at login.
C9_Witness ==
    /\ last.op = "unblock"
    /\ last.code = 200
    /\ last.tok \in tokens
    /\ last.tok.userId \in last.userIds.ids
    /\ \E r \in last.before : r.id = last.tok.userId /\ r.status = "blocked"
    /\ \E r \in store : r.id = last.tok.userId /\ r.status = "unblocked"

\* Two rows or more share the email.
Shared(rows, email) == Cardinality(RowsWithEmail(rows, email)) >= 2

C10_Responses ==
    /\ (/\ \/ last.op = "login" /\ last.body.password # ""
           \/ last.op = "check-email"
        /\ Shared(last.before, last.body.email))
         => /\ last.code = 404
            /\ last.user = {}
            /\ last.token = {}
    /\ (/\ last.op = "register"
        /\ AllFieldsPresent(last.body)
        /\ Shared(last.before, last.body.email))
         => /\ last.code = 201
            /\ Cardinality(RowsWithEmail(store, last.body.email))
                 = Cardinality(RowsWithEmail(last.before, last.body.email)) + 1

\* C10: with .single() reporting PGRST116 for several rows as for none,
\* once two rows share an email a register request for it passes the
\* existence check (it is never answered 400) and its insert is answered
\* 201 and adds one more row with the email, and login and check-email for
\* the email are answered 404 with no record.
C10_SharedEmailLooksAbsent ==
    [][/\ C10_Responses'
       /\ \A c \in Clients, b \in FullBodies :
             (/\ Shared(store, b.email)
              /\ RegisterCheck(c, b, FALSE, Cardinality(Clients), MaxRows))
                => inflight'[c] = [pc |-> "insert", body |-> b]]_vars

\* A third row with the email is added by a request that ran alone.
C10_Witness ==
    /\ last.op = "register"
    /\ last.code = 201
    /\ Shared(last.before, last.body.email)
    /\ Cardinality(RowsWithEmail(store, last.body.email)) = 3
    /\ \A c \in Clients : inflight[c].pc = "idle"

====
